---------------------------- MODULE Spec2Model ----------------------------
(***************************************************************************)
(* hexdump2 (src/src/lib.rs): import reads a textual hexdump into bytes,   *)
(* export / export_to write bytes as a hexdump.                            *)
(*                                                                         *)
(* Text (a Rust &str / String) is a sequence of one-character strings, one *)
(* per UTF-8 byte; every character of the modelled alphabet is ASCII, so   *)
(* str::len (a byte count) is Len.  A byte sequence (Vec<u8>, &[u8]) is a  *)
(* sequence of numbers 0..255.  Option<Vec<u8>> is a record                *)
(* [some, bytes]; None carries the empty sequence.                         *)
(***************************************************************************)
EXTENDS Integers, Sequences, FiniteSets, TLC

VARIABLES
  data,               \* import's argument: the text handed to import
  imported,           \* import's return value (meaningful once pc says so)
  values,             \* export_to's argument: the bytes to export
  options,            \* export_to's argument: ExportOptions
  total_value_count,  \* export_to's local: values.len()
  target,             \* the sink export_to writes into: the text it holds
  index,              \* export_to's loop position (0-based, as enumerate())
  line_value_count,   \* export_to's local: bytes written on the current line
  ascii,              \* export_to's local: the line's ASCII gutter so far
  result,             \* how the export call ended
  sink_rejected,      \* the sink has returned Err to a write
  pc,                 \* where the caller / the export loop stands
  w_index,            \* write_offset's parameter index, as a usize
  w_total             \* write_offset's parameter total_value_count, as a usize

vars == <<data, imported, values, options, total_value_count, target, index,
          line_value_count, ascii, result, sink_rejected, pc, w_index,
          w_total>>

---------------------------------------------------------------------------
(* Bounds of the model.                                                    *)

\* Longest text (in bytes) the caller of import composes.
MaxTextLen == 8
\* Longest byte sequence handed to export.
MaxValues == 3
\* Largest per_line handed to export (0, the degenerate value, included).
MaxPerLine == 3

---------------------------------------------------------------------------
(* Characters and digits.                                                  *)

\* The digits "{:X}" prints, by digit value + 1.
UpperDigits ==
  <<"0","1","2","3","4","5","6","7","8","9","A","B","C","D","E","F">>

\* The lowercase digits char::to_digit also accepts.
LowerDigits ==
  <<"0","1","2","3","4","5","6","7","8","9","a","b","c","d","e","f">>

\* value as char, for the printable range 0x20..0x7e, by value - 0x1f.
\* (A TLA+ string cannot hold the grave accent, 0x60: it is spelled out.)
AsChar ==
  <<" ","!","\"","#","$","%","&","'","(",")","*","+",",","-",".","/",
    "0","1","2","3","4","5","6","7","8","9",":",";","<","=",">","?",
    "@","A","B","C","D","E","F","G","H","I","J","K","L","M","N","O",
    "P","Q","R","S","T","U","V","W","X","Y","Z","[","\\","]","^","_",
    "GRAVE","a","b","c","d","e","f","g","h","i","j","k","l","m","n","o",
    "p","q","r","s","t","u","v","w","x","y","z","{","|","}","~">>

\* char::is_whitespace, on the characters of the model (str::trim uses it).
IsWhitespace(c) == c \in {" ", "\t", "\n", "\r"}

\* Concatenation of a sequence of texts (successive write_str calls).
RECURSIVE Concat(_)
Concat(ws) == IF ws = <<>> THEN <<>> ELSE Head(ws) \o Concat(Tail(ws))

---------------------------------------------------------------------------
(* import (lib.rs 50-92).                                                  *)

None == [some |-> FALSE, bytes |-> <<>>]
Some(buffer) == [some |-> TRUE, bytes |-> buffer]

RECURSIVE TrimStart(_)
TrimStart(s) ==
  IF s # <<>> /\ IsWhitespace(Head(s)) THEN TrimStart(Tail(s)) ELSE s

RECURSIVE TrimEnd(_)
TrimEnd(s) ==
  IF s # <<>> /\ IsWhitespace(s[Len(s)])
  THEN TrimEnd(SubSeq(s, 1, Len(s) - 1))
  ELSE s

\* str::trim: leading and trailing whitespace removed.
trim(s) == TrimEnd(TrimStart(s))

\* str::split(sep) collected: the pieces between the separators, empty
\* pieces kept; a text without separator (the empty one too) is one piece.
RECURSIVE split(_, _)
split(s, sep) ==
  IF \E i \in 1..Len(s) : s[i] = sep
  THEN LET i == CHOOSE k \in 1..Len(s) :
                  s[k] = sep /\ \A j \in 1..(k - 1) : s[j] # sep
       IN  <<SubSeq(s, 1, i - 1)>> \o split(SubSeq(s, i + 1, Len(s)), sep)
  ELSE <<s>>

\* char::to_digit(16): the digit's value, -1 for a character that is none.
to_digit(c) ==
  IF \E d \in 1..16 : LowerDigits[d] = c \/ UpperDigits[d] = c
  THEN (CHOOSE d \in 1..16 : LowerDigits[d] = c \/ UpperDigits[d] = c) - 1
  ELSE -1

RECURSIVE Radix16(_)
Radix16(digits) ==
  IF digits = <<>> THEN 0
  ELSE 16 * Radix16(SubSeq(digits, 1, Len(digits) - 1))
       + to_digit(digits[Len(digits)])

\* u64::from_str_radix(word, 16): the value, or -1 for Err.  The standard
\* library refuses the empty text and a lone sign, drops one leading "+"
\* (an unsigned type takes no "-"), and then wants every character to be a
\* hexadecimal digit.  (import calls it on two characters only: no overflow.)
from_str_radix(word) ==
  LET digits == IF Len(word) > 1 /\ word[1] = "+" THEN Tail(word) ELSE word
  IN  IF \/ word = <<>>
         \/ word = <<"+">>
         \/ word = <<"-">>
         \/ \E i \in 1..Len(digits) : to_digit(digits[i]) < 0
      THEN -1
      ELSE Radix16(digits)

\* The lines cut at carriage returns instead of line feeds.
lines_of_cr(text) == split(text, "\r")

\* for line in data.split('\n')
lines_of(text) == split(text, "\n")

\* line.split(' ')
words_of(line) == split(line, " ")

\* index == 0 && len > 2: the offset column.
IsOffsetWord(i, len) == i = 0 /\ len > 2

\* The last-word test left out: any padded pair counts as an annotation.
IsLastWordAlways(i, word_count) == TRUE

\* index == word_count - 1
IsLastWord(i, word_count) == i = word_count - 1

\* The loop over one line's words from word i (0-based) on: None on a word
\* of two characters that is neither excused nor parsed, else the buffer.
RECURSIVE ImportWords(_, _, _, _, _)
ImportWords(words, i, word_count, had_padding, buffer) ==
  IF i >= Len(words) THEN Some(buffer)
  ELSE
    LET word == words[i + 1]
        len  == Len(word)
    IN  IF len = 0
        THEN ImportWords(words, i + 1, word_count, TRUE, buffer)
        ELSE IF IsOffsetWord(i, len)
        THEN ImportWords(words, i + 1, word_count, had_padding, buffer)
        ELSE IF len = 2
        THEN IF IsLastWord(i, word_count) /\ had_padding
             THEN ImportWords(words, i + 1, word_count, had_padding, buffer)
             ELSE IF from_str_radix(word) >= 0
             THEN ImportWords(words, i + 1, word_count, FALSE,
                              Append(buffer, from_str_radix(word) % 256))
             ELSE None
        ELSE ImportWords(words, i + 1, word_count, had_padding, buffer)

\* The loop over the lines: each is trimmed and split, its flag and word
\* index start afresh, the buffer is carried on.
RECURSIVE ImportLines(_, _)
ImportLines(lines, buffer) ==
  IF lines = <<>> THEN Some(buffer)
  ELSE
    LET line  == trim(Head(lines))
        words == words_of(line)
        r     == ImportWords(words, 0, Len(words), FALSE, buffer)
    IN  IF r.some THEN ImportLines(Tail(lines), r.bytes) ELSE None

import(text) == ImportLines(lines_of(text), <<>>)

---------------------------------------------------------------------------
(* The caller of import: it composes a text piece by piece, then calls     *)
(* import on it.                                                           *)

\* The pieces a text is composed of: a hexadecimal pair (uppercase), a
\* signed pair (lowercase), a pair that is no number, a four-character
\* column, and the separators: a space, a line break, a carriage return.
PlainChunks ==
  { <<"0","A">>, <<"x","x">>, <<"0","0","0","0">>,
    <<" ">>, <<"\n">>, <<"\r">> }

SignedPair == <<"+","f">>

Chunks == PlainChunks \cup {SignedPair}

\* Values of the variables a specification does not use.
IdleImport ==
  /\ data = <<>>
  /\ imported = None

IdleExport ==
  /\ values = <<>>
  /\ options = [per_line |-> 1, with_offsets |-> FALSE, with_ascii |-> FALSE]
  /\ total_value_count = 0
  /\ index = 0
  /\ line_value_count = 0
  /\ ascii = <<>>
  /\ result = "none"
  /\ sink_rejected = FALSE

IdleOffset ==
  /\ w_index = <<>>
  /\ w_total = <<>>

InitImport ==
  /\ pc = "compose"
  /\ target = <<>>
  /\ IdleImport
  /\ IdleExport
  /\ IdleOffset

\* The caller appends one piece to the text.
Type(chunk) ==
  /\ pc = "compose"
  /\ Len(data) + Len(chunk) <= MaxTextLen
  /\ data' = data \o chunk
  /\ UNCHANGED <<imported, values, options, total_value_count, target, index,
                 line_value_count, ascii, result, sink_rejected, pc, w_index,
                 w_total>>

\* The caller calls import(data).
CallImport ==
  /\ pc = "compose"
  /\ imported' = import(data)
  /\ pc' = "imported"
  /\ UNCHANGED <<data, values, options, total_value_count, target, index,
                 line_value_count, ascii, result, sink_rejected, w_index,
                 w_total>>

NextImport ==
  \/ \E chunk \in PlainChunks : Type(chunk)
  \/ Type(SignedPair)
  \/ CallImport

SpecImport == InitImport /\ [][NextImport]_vars

---------------------------------------------------------------------------
(* Properties of import, checked under SpecImport.                         *)

\* Most spaces inserted at one place when a text is padded.
MaxExtraSpaces == 2

\* The line of text that holds position p, cut into the part before p and
\* the part after it.
LineBefore(text, p) ==
  LET starts == {q \in 1..p : \A r \in q..p : text[r] # "\n"}
  IN  SubSeq(text, CHOOSE q \in starts : \A r \in starts : q <= r, p - 1)

LineAfter(text, p) ==
  LET ends == {q \in p..Len(text) : \A r \in p..q : text[r] # "\n"}
  IN  SubSeq(text, p + 1, CHOOSE q \in ends : \A r \in ends : q >= r)

\* Position p of text holds a space that separates two tokens of one line.
BetweenTokens(text, p) ==
  /\ text[p] = " "
  /\ \E q \in 1..Len(LineBefore(text, p)) :
        ~IsWhitespace(LineBefore(text, p)[q])
  /\ \E q \in 1..Len(LineAfter(text, p)) :
        ~IsWhitespace(LineAfter(text, p)[q])

\* text with n more spaces after the space at position p.
InsertSpaces(text, p, n) ==
  SubSeq(text, 1, p) \o [k \in 1..n |-> " "] \o SubSeq(text, p + 1, Len(text))

\* The tokens (non-empty words) of the line after position p, which holds
\* a space between two tokens: the line's trailing whitespace is trimmed.
TokensAfter(text, p) ==
  SelectSeq(words_of(TrimEnd(LineAfter(text, p))), LAMBDA w : w # <<>>)

\* The line's last token is not two characters long, or a token of two
\* characters lies between position p and that last token.
PaddingCannotReachLastToken(text, p) ==
  LET toks == TokensAfter(text, p)
  IN  \/ Len(toks[Len(toks)]) # 2
      \/ \E j \in 1..(Len(toks) - 1) : Len(toks[j]) = 2

\* C2, as stated: import is invariant under the insertion of extra spaces
\* between two adjacent tokens of a line: the padded text imports to what
\* the text imports to.
C2_ExtraSpacesIgnored ==
  pc = "imported" =>
    \A p \in 1..Len(data), n \in 1..MaxExtraSpaces :
      BetweenTokens(data, p) => import(InsertSpaces(data, p, n)) = imported

\* C2, amended: extra spaces between two adjacent tokens of a line leave
\* import's result unchanged when the line's last token is not two
\* characters long or a two-character token lies between the inserted spaces
\* and the last token (else the padding may turn the last token into a
\* skipped trailing annotation).
C2_ExtraSpacesIgnoredBeforeBytes ==
  pc = "imported" =>
    \A p \in 1..Len(data), n \in 1..MaxExtraSpaces :
      (BetweenTokens(data, p) /\ PaddingCannotReachLastToken(data, p))
        => import(InsertSpaces(data, p, n)) = imported

\* Three bytes were imported from a line whose last token is a byte, and
\* spaces can be inserted before a byte that is not the last token.
C2_Witness ==
  /\ pc = "imported"
  /\ imported.some
  /\ Len(imported.bytes) = 3
  /\ \E p \in 1..Len(data) :
       /\ BetweenTokens(data, p)
       /\ PaddingCannotReachLastToken(data, p)
       /\ Len(TokensAfter(data, p)[Len(TokensAfter(data, p))]) = 2

\* A word of two hexadecimal digits, and its value.
TwoHexDigits(w) == Len(w) = 2 /\ to_digit(w[1]) >= 0 /\ to_digit(w[2]) >= 0
HexPairValue(w) == 16 * to_digit(w[1]) + to_digit(w[2])

\* The padding flag as word k of a line is reached: an empty word lies
\* before it with no pair of hexadecimal digits after that empty word.
PaddingFlagAt(words, k) ==
  \E e \in 1..(k - 1) :
    /\ words[e] = <<>>
    /\ \A j \in (e + 1)..(k - 1) : ~TwoHexDigits(words[j])

\* Word k is excused by the trailing-annotation rule.
Excused(words, k) == k = Len(words) /\ PaddingFlagAt(words, k)

\* The words of each line of a text.
LineWords(text) ==
  [l \in 1..Len(lines_of(text)) |-> words_of(trim(lines_of(text)[l]))]

\* Some line holds a two-character token that is neither two hexadecimal
\* digits nor excused.
HasUnrecognizedToken(text) ==
  \E l \in 1..Len(LineWords(text)) :
    \E k \in 1..Len(LineWords(text)[l]) :
      /\ Len(LineWords(text)[l][k]) = 2
      /\ ~TwoHexDigits(LineWords(text)[l][k])
      /\ ~Excused(LineWords(text)[l], k)

\* The bytes of the non-excused two-character tokens of words k.. of a line.
RECURSIVE PairBytes(_, _)
PairBytes(words, k) ==
  IF k > Len(words) THEN <<>>
  ELSE (IF Len(words[k]) = 2 /\ ~Excused(words, k)
        THEN <<HexPairValue(words[k])>> ELSE <<>>)
       \o PairBytes(words, k + 1)

RECURSIVE TextBytes(_, _)
TextBytes(lw, l) ==
  IF l > Len(lw) THEN <<>> ELSE PairBytes(lw[l], 1) \o TextBytes(lw, l + 1)

\* C4, as stated: import returns None exactly when some line holds a
\* two-character token that is not two hexadecimal digits and is not
\* excused by the trailing-annotation rule; otherwise it returns one byte
\* per non-excused two-character token, in order.
C4_NoneExactlyOnUnrecognizedToken ==
  pc = "imported" =>
    IF HasUnrecognizedToken(data)
    THEN imported = None
    ELSE imported = Some(TextBytes(LineWords(data), 1))

\* C10: lines are imported independently.  For every line break of the text
\* (the claim's case is a text with one line break), import of the whole is
\* None when import of the part before or of the part after is None, and
\* else the bytes of the one followed by the bytes of the other; and a line
\* of whitespace only imports to no bytes.
C10_LinesIndependent ==
  pc = "imported" =>
    /\ \A p \in 1..Len(data) :
         data[p] = "\n" =>
           LET l1 == import(SubSeq(data, 1, p - 1))
               l2 == import(SubSeq(data, p + 1, Len(data)))
           IN  imported = IF l1.some /\ l2.some
                          THEN Some(l1.bytes \o l2.bytes)
                          ELSE None
    /\ \A l \in 1..Len(lines_of(data)) :
         (\A q \in 1..Len(lines_of(data)[l]) :
            IsWhitespace(lines_of(data)[l][q]))
           => import(lines_of(data)[l]) = Some(<<>>)

\* Two lines, the first ending in a carriage return, each gave a byte.
C10_Witness ==
  /\ pc = "imported"
  /\ Cardinality({p \in 1..Len(data) : data[p] = "\n"}) = 1
  /\ \E p \in 2..Len(data) :
       /\ data[p] = "\n"
       /\ data[p - 1] = "\r"
       /\ import(SubSeq(data, 1, p - 1)).bytes # <<>>
       /\ import(SubSeq(data, p + 1, Len(data))).bytes # <<>>
  /\ imported.some
  /\ Len(imported.bytes) = 2
  /\ imported.bytes[1] # imported.bytes[2]

---------------------------------------------------------------------------
(* export_to (lib.rs 118-171) and its helpers.                             *)

\* A usize is kept as its 16 hexadecimal digits (values 0..15), the most
\* significant first: a count above 0xffffffff is then a value like any
\* other.  usize(n) is the usize of a small number n (below 16^8).
usize(n) == [k \in 1..16 |-> IF k <= 8 THEN 0 ELSE (n \div (16 ^ (16 - k))) % 16]

\* u <= 0xffff and u <= 0xffffffff.
FitsIn16Bits(u) == \A k \in 1..12 : u[k] = 0
FitsIn32Bits(u) == \A k \in 1..8 : u[k] = 0

\* "{:X}": the digits without leading zeros (one digit at least), uppercase.
UpperHex(u) ==
  LET first == IF \E k \in 1..15 : u[k] # 0
               THEN CHOOSE k \in 1..15 : u[k] # 0 /\ \A j \in 1..(k - 1) : u[j] = 0
               ELSE 16
  IN  [k \in 1..(17 - first) |-> UpperDigits[u[first + k - 1] + 1]]

\* A formatted number padded on the left to a minimum width.
PadLeft(digits, width, fill) ==
  IF Len(digits) >= width THEN digits
  ELSE [k \in 1..(width - Len(digits)) |-> fill] \o digits

\* format!("{:X}", value): the pair without its leading zero.
format_X(value) == UpperHex(usize(value))

\* format!("{:02X}", value)
format_02X(value) == PadLeft(UpperHex(usize(value)), 2, "0")

\* The offset printed two digits wide.
write_offset_02X(idx, total) == PadLeft(UpperHex(idx), 2, "0") \o <<" ">>

\* write_offset: the text of its one write_str.
write_offset(idx, total) ==
  IF FitsIn16Bits(total) THEN PadLeft(UpperHex(idx), 4, "0") \o <<" ">>
  ELSE IF FitsIn32Bits(total) THEN PadLeft(UpperHex(idx), 8, "0") \o <<" ">>
  ELSE PadLeft(UpperHex(idx), 16, " ") \o <<" ">>

\* push_ascii: the gutter with the byte's character, or "." for a byte
\* outside 0x20..0x7e.
push_ascii(gutter, value) ==
  IF value >= 32 /\ value <= 126
  THEN Append(gutter, AsChar[value - 31])
  ELSE Append(gutter, ".")

\* The gutter padded by two spaces per missing value.
write_ascii_narrow(gutter, count, per_line) ==
  [k \in 1..(per_line - count) |-> <<" ", " ">>] \o <<<<" ">>, gutter>>

\* write_ascii when per_line >= count: its writes, in order (three spaces
\* per missing value, one space, the gutter).
write_ascii(gutter, count, per_line) ==
  [k \in 1..(per_line - count) |-> <<" ", " ", " ">>] \o <<<<" ">>, gutter>>

\* A space after every byte, the last of a line too.
end_of_value_spaced(count, per_line) ==
  IF count = per_line THEN <<<<" ">>, <<"\n">>>>
  ELSE IF count < per_line THEN <<<<" ">>>>
  ELSE <<>>

\* What follows a byte that is not the last: the line break after a full
\* line, else a space (when the line is not over-full).
end_of_value(count, per_line) ==
  IF count = per_line THEN <<<<"\n">>>>
  ELSE IF count < per_line THEN <<<<" ">>>>
  ELSE <<>>

\* The byte values of the model: 0x00, 0x20 and 0x7e (the ends of the
\* printable range), 0x61 (a letter that is a hexadecimal digit), 0x7f.
Bytes == {0, 32, 97, 126, 127}

ByteSeqs == UNION {[1..n -> Bytes] : n \in 0..MaxValues}

InitExport ==
  /\ pc \in {"export", "export_to"}
  /\ values \in ByteSeqs
  /\ options \in [per_line : 0..MaxPerLine,
                  with_offsets : BOOLEAN, with_ascii : BOOLEAN]
  /\ total_value_count = Len(values)
  /\ target = <<>>
  /\ index = 0
  /\ line_value_count = 0
  /\ ascii = <<>>
  /\ result = "running"
  /\ sink_rejected = FALSE
  /\ IdleImport
  /\ IdleOffset

\* One iteration of export_to's loop, for the byte at position index.  The
\* sink export hands over is a String, which takes every write; the sink a
\* caller of export_to hands over may reject any write (rejected = k: the
\* iteration's k-th write returns Err, which unwrap turns into a panic).
\* per_line = 0 makes the remainder of line 129 panic; it makes the
\* subtraction of line 207 overflow, which panics in a build with overflow
\* checks and wraps in one without, where the padding loop then runs
\* 2^64 - count times.
ExportIteration ==
  /\ pc \in {"export", "export_to"}
  /\ index < total_value_count
  /\ LET value == values[index + 1]
         count == line_value_count + 1
         pushed == IF options.with_ascii THEN push_ascii(ascii, value)
                   ELSE ascii
         is_last_value == index = total_value_count - 1
         is_last_value_for_this_line == count = options.per_line
         rem_by_zero == options.with_offsets /\ options.per_line = 0
         offset_writes ==
           IF options.with_offsets /\ ~rem_by_zero
              /\ index % options.per_line = 0
           THEN <<write_offset(usize(index), usize(total_value_count))>>
           ELSE <<>>
         flush == options.with_ascii
                  /\ (is_last_value \/ is_last_value_for_this_line)
         sub_overflow == flush /\ options.per_line < count
         ascii_writes == IF flush /\ ~sub_overflow
                         THEN write_ascii(pushed, count, options.per_line)
                         ELSE <<>>
         end_writes == IF is_last_value THEN <<>>
                       ELSE end_of_value(count, options.per_line)
         writes == offset_writes \o <<format_02X(value)>>
                   \o ascii_writes \o end_writes
         new_line == ~is_last_value /\ is_last_value_for_this_line
     IN  \E rejected \in (IF pc = "export" THEN {0} ELSE 0..Len(writes)),
            overflow_checks \in BOOLEAN :
           IF rem_by_zero
           THEN /\ result' = "panic: remainder by zero"
                /\ pc' = "panicked"
                /\ UNCHANGED <<target, index, line_value_count, ascii,
                               sink_rejected>>
           ELSE IF rejected > 0
           THEN /\ target' = target \o Concat(SubSeq(writes, 1, rejected - 1))
                /\ sink_rejected' = TRUE
                /\ result' = "panic: unwrap on fmt::Error"
                /\ pc' = "panicked"
                /\ UNCHANGED <<index, line_value_count, ascii>>
           ELSE IF sub_overflow
           THEN /\ target' = target \o Concat(writes)
                /\ result' = IF overflow_checks
                             THEN "panic: subtract with overflow"
                             ELSE "padding loop runs 2^64 - count times"
                /\ pc' = IF overflow_checks THEN "panicked" ELSE "diverged"
                /\ UNCHANGED <<index, line_value_count, ascii,
                               sink_rejected>>
           ELSE /\ target' = target \o Concat(writes)
                /\ index' = index + 1
                /\ line_value_count' = IF new_line THEN 0 ELSE count
                /\ ascii' = IF new_line /\ options.with_ascii THEN <<>>
                            ELSE pushed
                /\ UNCHANGED <<result, sink_rejected, pc>>
  /\ UNCHANGED <<data, imported, values, options, total_value_count,
                 w_index, w_total>>

\* The loop is over: export_to returns Ok(()), export returns Ok(res).
ExportReturn ==
  /\ pc \in {"export", "export_to"}
  /\ index = total_value_count
  /\ result' = "Ok"
  /\ pc' = "returned"
  /\ UNCHANGED <<data, imported, values, options, total_value_count, target,
                 index, line_value_count, ascii, sink_rejected, w_index,
                 w_total>>

\* The caller hands the exported text to import.
ImportExported ==
  /\ pc = "returned"
  /\ data' = target
  /\ imported' = import(target)
  /\ pc' = "reimported"
  /\ UNCHANGED <<values, options, total_value_count, target, index,
                 line_value_count, ascii, result, sink_rejected, w_index,
                 w_total>>

NextExport ==
  \/ ExportIteration
  \/ ExportReturn
  \/ ImportExported

SpecExport == InitExport /\ [][NextExport]_vars

---------------------------------------------------------------------------
(* Properties of export and export_to, checked under SpecExport.           *)

\* The export call has returned Ok.
Exported == pc \in {"returned", "reimported"}

\* C1: round trip.  For every byte sequence (the empty one too) and every
\* per_line >= 1, import of the text exported without offsets and without
\* the ASCII gutter succeeds and gives the byte sequence back.
C1_RoundTrip ==
  (/\ pc = "reimported"
   /\ options.per_line >= 1
   /\ ~options.with_offsets
   /\ ~options.with_ascii)
    => imported = Some(values)

\* Three bytes exported on two lines, without offsets and gutter, came back.
C1_Witness ==
  /\ pc = "reimported"
  /\ options = [per_line |-> 2, with_offsets |-> FALSE, with_ascii |-> FALSE]
  /\ Len(values) = 3
  /\ values[1] # values[2]
  /\ imported = Some(values)

C5_SinkFailureReturnsErr ==
  (sink_rejected /\ options.per_line >= 1)
    => (pc = "returned" /\ result = "Err(ExportError::Fmt)")

\* C6, as stated: with per_line = 0 (any bytes, any with_offsets and
\* with_ascii, a sink that takes every write) export and export_to do not
\* crash, and the call reports ExportError::BadOptions.
C6_ZeroPerLineReported ==
  (options.per_line = 0 /\ ~sink_rejected) =>
    /\ pc \notin {"panicked", "diverged"}
    /\ pc \in {"returned", "reimported"}
         => result = "Err(ExportError::BadOptions)"

\* The number of output lines of n bytes, and the bytes on line l.
LineCount(n, per_line) == (n + per_line - 1) \div per_line
BytesOnLine(n, per_line, l) ==
  IF l < LineCount(n, per_line) THEN per_line
  ELSE n - per_line * (LineCount(n, per_line) - 1)

\* Characters c and d are the two uppercase hexadecimal digits of value.
IsUpperPairOf(c, d, value) ==
  /\ \E k \in 1..16 : UpperDigits[k] = c
  /\ \E k \in 1..16 : UpperDigits[k] = d
  /\ 16 * to_digit(c) + to_digit(d) = value

\* C8: export line structure.  For a non-empty byte sequence and
\* per_line >= 1, offsets and gutter disabled, the output is
\* ceil(n / per_line) lines separated by single line breaks; every line but
\* the last holds per_line pairs and the last between 1 and per_line; a pair
\* is two uppercase hexadecimal digits, the bytes appear in input order,
\* pairs are separated by exactly one space; no trailing space, no trailing
\* line break.
C8_LineStructure ==
  (/\ Exported
   /\ values # <<>>
   /\ options.per_line >= 1
   /\ ~options.with_offsets
   /\ ~options.with_ascii)
    => LET out == split(target, "\n")
           n == Len(values)
           per_line == options.per_line
       IN  /\ Len(out) = LineCount(n, per_line)
           /\ \A l \in 1..Len(out) :
                LET k == BytesOnLine(n, per_line, l)
                    line == out[l]
                IN  /\ k \in 1..per_line
                    /\ Len(line) = 3 * k - 1
                    /\ \A j \in 1..k :
                         IsUpperPairOf(line[3 * j - 2], line[3 * j - 1],
                                       values[(l - 1) * per_line + j])
                    /\ \A j \in 1..(k - 1) : line[3 * j] = " "

\* Three bytes were exported on two lines, without offsets and gutter.
C8_Witness ==
  /\ pc = "returned"
  /\ options = [per_line |-> 2, with_offsets |-> FALSE, with_ascii |-> FALSE]
  /\ Len(values) = 3
  /\ values[1] # values[2]

\* The gutter character of a byte.
GutterChar(value) ==
  IF value >= 32 /\ value <= 126 THEN AsChar[value - 31] ELSE "."

\* C9: ASCII gutter alignment.  With the gutter enabled and per_line >= 1:
\* while the loop runs, the gutter buffer holds one character per byte
\* written on the current line and never more than per_line; and every
\* line of the output ends in one gutter, with one character per byte of
\* that line, preceded by exactly 3 spaces per unfilled byte slot plus one
\* space, so that the gutter starts at the same column on every line, a
\* partial last line included.
C9_GutterAligned ==
  (options.with_ascii /\ options.per_line >= 1) =>
    /\ pc \in {"export", "export_to"} =>
         /\ Len(ascii) = line_value_count
         /\ line_value_count <= options.per_line
    /\ (Exported /\ values # <<>>) =>
         LET out == split(target, "\n")
             n == Len(values)
             per_line == options.per_line
             pad(l) == 3 * (per_line - BytesOnLine(n, per_line, l)) + 1
             col(l) == Len(out[l]) - BytesOnLine(n, per_line, l) + 1
         IN  /\ Len(out) = LineCount(n, per_line)
             /\ \A l \in 1..Len(out) :
                  LET k == BytesOnLine(n, per_line, l)
                      line == out[l]
                  IN  /\ k \in 1..per_line
                      /\ col(l) - pad(l) > 1
                      /\ \A j \in 1..k :
                           line[col(l) + j - 1]
                             = GutterChar(values[(l - 1) * per_line + j])
                      /\ \A q \in (col(l) - pad(l))..(col(l) - 1) :
                           line[q] = " "
                      /\ line[col(l) - pad(l) - 1] # " "
                      /\ col(l) = col(1)

\* Three bytes were exported with offsets and gutter on a full line and a
\* partial last line.
C9_Witness ==
  /\ pc = "returned"
  /\ options = [per_line |-> 2, with_offsets |-> TRUE, with_ascii |-> TRUE]
  /\ Len(values) = 3

---------------------------------------------------------------------------
(* write_offset (lib.rs 173-189) on its own: the caller hands it an index  *)
(* and a total byte count, of any size a usize holds.                      *)

\* The usize whose last hexadecimal digits are ds.
U(ds) == [k \in 1..16 |-> IF k <= 16 - Len(ds) THEN 0 ELSE ds[k - (16 - Len(ds))]]

\* u < v
Less(u, v) ==
  \E k \in 1..16 : u[k] < v[k] /\ \A j \in 1..(k - 1) : u[j] = v[j]

\* Total byte counts around the two thresholds, and indexes below them.
OffsetTotals ==
  { U(<<1>>), U(<<1,0>>), U(<<15,15,15,15>>), U(<<1,0,0,0,0>>),
    U(<<10,11,12,13,14>>), U(<<15,15,15,15,15,15,15,15>>),
    U(<<1,0,0,0,0,0,0,0,0>>), U(<<1,0,0,0,0,0,0,0,0,0,0,0,0,0,0,0>>) }

OffsetIndexes ==
  { U(<<0>>), U(<<1>>), U(<<15>>), U(<<1,0>>), U(<<10,11>>),
    U(<<15,15,15,14>>), U(<<15,15,15,15>>), U(<<1,0,0,0,0>>),
    U(<<15,15,15,15,15,15,15,14>>), U(<<15,15,15,15,15,15,15,15>>),
    U(<<1,0,0,0,0,0,0,0,0>>) }

InitOffset ==
  /\ pc = "write_offset"
  /\ w_total \in OffsetTotals
  /\ w_index \in {u \in OffsetIndexes : Less(u, w_total)}
  /\ target = <<>>
  /\ IdleImport
  /\ IdleExport

\* write_offset(target, index, total_value_count) on a String.
WriteOffset ==
  /\ pc = "write_offset"
  /\ target' = target \o write_offset(w_index, w_total)
  /\ pc' = "offset_written"
  /\ UNCHANGED <<data, imported, values, options, total_value_count, index,
                 line_value_count, ascii, result, sink_rejected, w_index,
                 w_total>>

NextOffset == WriteOffset

SpecOffset == InitOffset /\ [][NextOffset]_vars

---------------------------------------------------------------------------
(* The whole library.                                                      *)

Init == InitImport \/ InitExport \/ InitOffset

Next == NextImport \/ NextExport \/ NextOffset

Spec == Init /\ [][Next]_vars

---------------------------------------------------------------------------
(* Property of write_offset, checked under SpecOffset.                     *)

\* The width of the offset field for a total byte count.
FieldWidth(total) ==
  IF FitsIn16Bits(total) THEN 4 ELSE IF FitsIn32Bits(total) THEN 8 ELSE 16

\* C7, as stated: the offset field is the index in uppercase hexadecimal,
\* zero-padded to 4 digits for a total of at most 65535, to 8 digits for a
\* total of at most 4294967295 and to 16 digits above, followed by exactly
\* one space.
C7_OffsetZeroPadded ==
  pc = "offset_written" =>
    target = PadLeft(UpperHex(w_index), FieldWidth(w_total), "0") \o <<" ">>

=============================================================================
